---- MODULE Spec2Model ----
(***************************************************************************)
(* A model of the MBA Copilot backend (src/serverless/backend/index.py):   *)
(* the token chunker, the PDF block sort, the retrieval assembler of the   *)
(* chat endpoint, and the ingestion pipeline against the vector index.     *)
(*                                                                         *)
(* Five specifications share the variables; each leaves the variables of   *)
(* the parts it does not run at their idle values:                         *)
(*   SpecChunk  chunk_by_tokens applied to bounded texts                   *)
(*   SpecPdf    the per-page block sort of the PDF extractors              *)
(*   SpecChat   one chat request, step by step                             *)
(*   Spec       concurrent ingestions and deletions against the index      *)
(*   SpecBatch  the same for files of more than one upsert batch, the      *)
(*              embedding responses of a request arriving in one step      *)
(***************************************************************************)
EXTENDS Integers, Sequences, FiniteSets, TLC

VARIABLES
    \* ---- chunk_by_tokens
    text,             \* the text argument, a sequence of characters
    chunk_tokens,     \* the chunk_tokens argument
    overlap_tokens,   \* the overlap_tokens argument
    chunkResult,      \* what the call did: not called, returned, raised
    \* ---- PDF block sort
    blocks,           \* page.get_text("blocks") of one page
    pageResult,       \* the sorted clean blocks of that page
    \* ---- chat
    chat_pc,          \* position of the chat handler
    chat_req,         \* the request: min_score and history
    similar,          \* what query_similar returned
    context_chunks,   \* the context set
    context,          \* the rendered context
    messages,         \* the messages generate_answer built
    chat_resp,        \* the response of the handler
    \* ---- configuration and lazy clients
    OPENAI_API_KEY,   \* config.OPENAI_API_KEY is set
    PINECONE_API_KEY, \* config.PINECONE_API_KEY is set
    openai_client,    \* _openai_client
    pinecone_index,   \* _pinecone_index
    constructed,      \* how many objects of each client class have been built
    \* ---- ingestion
    store,            \* the records of the vector index that the model tracks
    others,           \* number of further documents in the index, of other filenames
    pc,               \* position of each ingestion request
    req,              \* the file of each request in flight
    completions,      \* the embedding responses of each request in flight, in arrival order
    resp,             \* the response of each request
    nextId,           \* the next document id generate_document_id hands out
    nreq,             \* number of requests begun so far
    hist,             \* the last two events on the index, oldest first
    upsertedBy        \* the requests that have called index.upsert

chunkVars == <<text, chunk_tokens, overlap_tokens, chunkResult>>
pdfVars == <<blocks, pageResult>>
chatVars == <<chat_pc, chat_req, similar, context_chunks, context, messages, chat_resp>>
clientVars == <<OPENAI_API_KEY, PINECONE_API_KEY, openai_client, pinecone_index, constructed>>
ingestVars == <<store, others, pc, req, completions, resp, nextId, nreq, hist, upsertedBy>>
vars == <<chunkVars, pdfVars, chatVars, clientVars, ingestVars>>

Min(a, b) == IF a <= b THEN a ELSE b
Max(a, b) == IF a >= b THEN a ELSE b

SeqsUpTo(S, n) == UNION {[1..k -> S] : k \in 0..n}

(***************************************************************************)
(* Token chunker                                                           *)
(***************************************************************************)

\* Bounds of the chunker's inputs.
MaxTextLen == 5
MaxChunkTokens == 3

\* A text is a sequence of characters: a letter, a space, a carriage return
\* or a line feed.
Chars == {"a", "SP", "CR", "LF"}
Whitespace == {"SP", "CR", "LF"}

\* str.replace("\r\n", "\n"): one pass, left to right.
RECURSIVE ReplaceCRLF(_)
ReplaceCRLF(s) ==
    IF s = <<>> THEN <<>>
    ELSE IF Len(s) >= 2 /\ s[1] = "CR" /\ s[2] = "LF"
         THEN <<"LF">> \o ReplaceCRLF(SubSeq(s, 3, Len(s)))
         ELSE <<s[1]>> \o ReplaceCRLF(Tail(s))

RECURSIVE LStrip(_)
LStrip(s) ==
    IF s # <<>> /\ s[1] \in Whitespace THEN LStrip(Tail(s)) ELSE s

RECURSIVE RStrip(_)
RStrip(s) ==
    IF s # <<>> /\ s[Len(s)] \in Whitespace THEN RStrip(SubSeq(s, 1, Len(s) - 1)) ELSE s

\* str.strip()
Strip(s) == RStrip(LStrip(s))

\* text.replace("\r\n", "\n").strip()
Normalize(s) == Strip(ReplaceCRLF(s))

\* enc.encode: the text cut into tokens, each a piece of the text. As in the
\* byte-pair vocabularies, a space merges with the letter that follows it;
\* every other character is a token of its own.
RECURSIVE Encode(_)
Encode(s) ==
    IF s = <<>> THEN <<>>
    ELSE IF Len(s) >= 2 /\ s[1] = "SP" /\ s[2] = "a"
         THEN <<SubSeq(s, 1, 2)>> \o Encode(SubSeq(s, 3, Len(s)))
         ELSE <<SubSeq(s, 1, 1)>> \o Encode(Tail(s))

\* enc.decode: the pieces of the tokens, concatenated.
RECURSIVE Decode(_)
Decode(toks) ==
    IF toks = <<>> THEN <<>> ELSE Head(toks) \o Decode(Tail(toks))

\* The next start of the window: start = max(0, end - overlap_tokens).
NextStartNoOverlap(end, overlap) == end
NextStart(end, overlap) == Max(0, end - overlap)

\* The while loop of chunk_by_tokens. acc.windows are the token windows
\* [start, end) the loop takes, acc.chunks the texts it appends.
RECURSIVE ChunkLoop(_, _, _, _, _)
ChunkLoop(tokens, ct, ot, start, acc) ==
    IF ~(start < Len(tokens)) THEN acc
    ELSE LET end == Min(start + ct, Len(tokens))
             chunk_text == Strip(Decode(SubSeq(tokens, start + 1, end)))
             acc2 == [windows |-> Append(acc.windows, <<start, end>>),
                      chunks |-> IF chunk_text # <<>>
                                 THEN Append(acc.chunks, chunk_text)
                                 ELSE acc.chunks]
         IN  IF end >= Len(tokens) THEN acc2
             ELSE ChunkLoop(tokens, ct, ot, NextStart(end, ot), acc2)

NoChunking == [kind |-> "none", chunks |-> <<>>, windows |-> <<>>]

\* A variant that returns its argument as the sole chunk.
chunk_by_tokens_raw(t, ct, ot) ==
    LET n == Normalize(t)
        tokens == Encode(n)
    IN  IF n = <<>> THEN [kind |-> "returned", chunks |-> <<>>, windows |-> <<>>]
        ELSE IF ot >= ct THEN [kind |-> "ValueError", chunks |-> <<>>, windows |-> <<>>]
        ELSE IF Len(tokens) <= ct
             THEN [kind |-> "returned", chunks |-> <<t>>, windows |-> <<>>]
        ELSE LET r == ChunkLoop(tokens, ct, ot, 0, [windows |-> <<>>, chunks |-> <<>>])
             IN  [kind |-> "returned", chunks |-> r.chunks, windows |-> r.windows]

\* chunk_by_tokens(text, chunk_tokens, overlap_tokens)
chunk_by_tokens(t, ct, ot) ==
    LET n == Normalize(t)
        tokens == Encode(n)
    IN  IF n = <<>> THEN [kind |-> "returned", chunks |-> <<>>, windows |-> <<>>]
        ELSE IF ot >= ct THEN [kind |-> "ValueError", chunks |-> <<>>, windows |-> <<>>]
        ELSE IF Len(tokens) <= ct
             THEN [kind |-> "returned", chunks |-> <<n>>, windows |-> <<>>]
        ELSE LET r == ChunkLoop(tokens, ct, ot, 0, [windows |-> <<>>, chunks |-> <<>>])
             IN  [kind |-> "returned", chunks |-> r.chunks, windows |-> r.windows]

(***************************************************************************)
(* PDF block sort                                                          *)
(***************************************************************************)

\* Bound: the number of blocks of a page.
MaxBlocks == 3

\* y_tol = 3.0
YTol == 3

\* A block is (x0, y0, ..., text): b[0], b[1] and b[4] of the source. The
\* coordinates are whole points. The text "SP" is whitespace only.
BlockPool ==
    { [x0 |-> 50, y0 |-> 10, text |-> "B"],
      [x0 |-> 10, y0 |-> 11, text |-> "A"],
      [x0 |-> 10, y0 |-> 50, text |-> "C"],
      [x0 |-> 10, y0 |-> 10, text |-> "D"],
      [x0 |-> 50, y0 |-> 12, text |-> "E"],
      [x0 |-> 10, y0 |-> 12, text |-> "SP"] }

\* int(n / d), as a wrong row number.
RoundDown(n, d) == n \div d

\* round(n / d) of Python: to the nearest integer, a tie to the even one.
Round(n, d) ==
    LET q == n \div d
        r == n % d
    IN  IF 2 * r < d THEN q
        ELSE IF 2 * r > d THEN q + 1
        ELSE IF q % 2 = 0 THEN q ELSE q + 1

\* key=lambda b: (round(float(b[1]) / y_tol), float(b[0]))
SortKey(b) == <<Round(b.y0, YTol), b.x0>>

\* Tuple comparison of two keys.
KeyLess(k1, k2) == k1[1] < k2[1] \/ (k1[1] = k2[1] /\ k1[2] < k2[2])

\* The blocks the filter keeps: b[4].strip() is not empty.
CleanBlocks(bs) ==
    LET Keep(b) == b.text # "SP" IN SelectSeq(bs, Keep)

\* list.sort is stable: a block goes after the blocks whose key is not greater.
RECURSIVE InsertBlock(_, _)
InsertBlock(b, sorted) ==
    IF sorted = <<>> THEN <<b>>
    ELSE IF KeyLess(SortKey(b), SortKey(Head(sorted)))
         THEN <<b>> \o sorted
         ELSE <<Head(sorted)>> \o InsertBlock(b, Tail(sorted))

RECURSIVE SortBlocks(_)
SortBlocks(bs) ==
    IF bs = <<>> THEN <<>>
    ELSE InsertBlock(bs[Len(bs)], SortBlocks(SubSeq(bs, 1, Len(bs) - 1)))

NoPage == [done |-> FALSE, clean_blocks |-> <<>>]

\* The body of the page loop: filter, then sort.
ExtractPage(bs) == [done |-> TRUE, clean_blocks |-> SortBlocks(CleanBlocks(bs))]

(***************************************************************************)
(* Retrieval assembler and answer generation                               *)
(***************************************************************************)

\* Bound: the number of candidates a query returns in the model.
MaxCands == 10

\* config.RETRIEVAL_TOP_K, config.CONTEXT_MAX_CHUNKS
RETRIEVAL_TOP_K == 20
CONTEXT_MAX_CHUNKS == 8

\* Scores and min_score in hundredths.
Scores == {90, 60, 20, 10}
MinScores == {30, 95}

Rep(v, n) == [i \in 1..n |-> v]

\* The index ranks its matches by score, the highest first.
ScoreLists ==
    { Rep(90, a) \o Rep(60, b) \o Rep(20, c) \o Rep(10, d) :
        <<a, b, c, d>> \in
          { t \in (0..MaxCands) \X (0..MaxCands) \X (0..MaxCands) \X (0..MaxCands) :
              t[1] + t[2] + t[3] + t[4] <= Min(MaxCands, RETRIEVAL_TOP_K) } }

\* The matches of a query: the candidate of rank i has id i.
Matches(scores) == [i \in 1..Len(scores) |-> [id |-> i, score |-> scores[i]]]

Take(s, n) == SubSeq(s, 1, Min(n, Len(s)))

\* Variants of the selection: one without the score filter, one whose
\* fallback takes CONTEXT_MAX_CHUNKS candidates.
ContextChunksNoFilter(sim, min_score) ==
    IF sim # <<>> THEN Take(sim, CONTEXT_MAX_CHUNKS) ELSE <<>>

ContextChunksWideFallback(sim, min_score) ==
    LET Rel(c) == c.score >= min_score
        relevant == SelectSeq(sim, Rel)
    IN  IF relevant # <<>> THEN Take(relevant, CONTEXT_MAX_CHUNKS)
        ELSE IF sim # <<>> THEN Take(sim, CONTEXT_MAX_CHUNKS)
        ELSE <<>>

\* relevant, then context_chunks, of chat.
ContextChunks(sim, min_score) ==
    LET Rel(c) == c.score >= min_score
        relevant == SelectSeq(sim, Rel)
    IN  IF relevant # <<>> THEN Take(relevant, CONTEXT_MAX_CHUNKS)
        ELSE IF sim # <<>> THEN Take(sim, Max(3, CONTEXT_MAX_CHUNKS \div 2))
        ELSE <<>>

\* "\n\n---\n\n".join(f"[Source: {filename}]\n{text}" for c in context_chunks):
\* the rendered chunks with a delimiter between neighbours; the empty string
\* is the empty sequence.
RECURSIVE RenderContext(_)
RenderContext(cs) ==
    IF cs = <<>> THEN <<>>
    ELSE IF Len(cs) = 1 THEN <<[tag |-> "source", id |-> cs[1].id]>>
    ELSE <<[tag |-> "source", id |-> cs[1].id], [tag |-> "delimiter", id |-> 0]>>
         \o RenderContext(Tail(cs))

\* The histories of the model: none, a user turn, a turn of a role that is
\* dropped, and a dict without the key "role".
Histories ==
    { <<>>,
      <<[role |-> "user", content |-> "earlier"]>>,
      <<[role |-> "tool", content |-> "earlier"]>>,
      <<[role |-> "MISSING", content |-> "earlier"]>> }

Msg(role, kind, body) == [role |-> role, kind |-> kind, body |-> body]

\* A variant that always adds the context message.
ContextMessageAlways(ctx) == Msg("system", "context", ctx)

\* The second system message of generate_answer.
ContextMessage(ctx) ==
    IF ctx # <<>> THEN Msg("system", "context", ctx)
    ELSE Msg("system", "no_relevant_documents", <<>>)

RECURSIVE HistoryMessages(_)
HistoryMessages(h) ==
    IF h = <<>> THEN <<>>
    ELSE (IF Head(h).role \in {"user", "assistant", "system"}
          THEN <<Msg(Head(h).role, "history", <<>>)>> ELSE <<>>)
         \o HistoryMessages(Tail(h))

\* msg["role"] raises KeyError on a dict without the key.
HistoryRaises(h) == \E i \in 1..Len(h) : h[i].role = "MISSING"

\* The messages generate_answer sends.
BuildMessages(ctx, h) ==
    <<Msg("system", "prompt", <<>>), ContextMessage(ctx)>>
    \o HistoryMessages(h) \o <<Msg("user", "question", <<>>)>>

\* sources = [{...} for c in context_chunks]
Sources(cs) == [i \in 1..Len(cs) |-> cs[i]]

(***************************************************************************)
(* Lazy clients                                                            *)
(***************************************************************************)

\* get_openai() / get_pinecone_index(): the client is built on first use;
\* without the key the call raises RuntimeError and sets nothing.
GetClient(client, key) ==
    IF client = "None"
    THEN IF ~key THEN [raised |-> TRUE, client |-> "None"]
         ELSE [raised |-> FALSE, client |-> "client"]
    ELSE [raised |-> FALSE, client |-> client]

\* No client has been built.
NoneConstructed == [OpenAI |-> 0, Pinecone |-> 0, AsyncOpenAI |-> 0]

\* The counts after a call of get_openai() / get_pinecone_index(): the
\* constructor of the class runs when the global is None and the key is set.
AfterGet(counts, class, client, key) ==
    IF client = "None" /\ key THEN [counts EXCEPT ![class] = @ + 1] ELSE counts

\* The counts after generate_embeddings_batch has built its AsyncOpenAI.
AfterAsyncOpenAI(counts) == [counts EXCEPT !.AsyncOpenAI = @ + 1]

(***************************************************************************)
(* Idle values                                                             *)
(***************************************************************************)

NoChatReq == [min_score |-> 0, history |-> <<>>]
NoChatResp == [status |-> 0, sources |-> <<>>, failed_at |-> "", error |-> ""]

ChunkIdle ==
    /\ text = <<>>
    /\ chunk_tokens = 0
    /\ overlap_tokens = 0
    /\ chunkResult = NoChunking

PdfIdle ==
    /\ blocks = <<>>
    /\ pageResult = NoPage

ChatIdle ==
    /\ chat_pc = "idle"
    /\ chat_req = NoChatReq
    /\ similar = <<>>
    /\ context_chunks = <<>>
    /\ context = <<>>
    /\ messages = <<>>
    /\ chat_resp = NoChatResp

ClientIdle ==
    /\ OPENAI_API_KEY = TRUE
    /\ PINECONE_API_KEY = TRUE
    /\ openai_client = "None"
    /\ pinecone_index = "None"
    /\ constructed = NoneConstructed

(***************************************************************************)
(* SpecChunk: chunk_by_tokens on every bounded text and configuration      *)
(***************************************************************************)

Texts == SeqsUpTo(Chars, MaxTextLen)

CallChunkByTokens ==
    /\ chunkResult.kind = "none"
    /\ chunkResult' = chunk_by_tokens(text, chunk_tokens, overlap_tokens)
    /\ UNCHANGED <<text, chunk_tokens, overlap_tokens>>
    /\ UNCHANGED <<pdfVars, chatVars, clientVars, ingestVars>>

(***************************************************************************)
(* SpecPdf: the block sort on every bounded page                           *)
(***************************************************************************)

Pages == SeqsUpTo(BlockPool, MaxBlocks)

CallExtractPage ==
    /\ ~pageResult.done
    /\ pageResult' = ExtractPage(blocks)
    /\ UNCHANGED blocks
    /\ UNCHANGED <<chunkVars, chatVars, clientVars, ingestVars>>

(***************************************************************************)
(* SpecChat: one request to /chat                                          *)
(***************************************************************************)

ChatFail(stage, err) ==
    /\ chat_pc' = "failed"
    /\ chat_resp' = [status |-> 500, sources |-> <<>>, failed_at |-> stage, error |-> err]

\* The request arrives: settings.min_score and history are its inputs.
ChatBegin(ms, h) ==
    /\ chat_pc = "idle"
    /\ chat_pc' = "embedding"
    /\ chat_req' = [min_score |-> ms, history |-> h]
    /\ UNCHANGED <<similar, context_chunks, context, messages, chat_resp>>
    /\ UNCHANGED <<chunkVars, pdfVars, clientVars, ingestVars>>

\* generate_embedding: get_openai() raises without the key.
ChatEmbedConfigError ==
    /\ chat_pc = "embedding"
    /\ GetClient(openai_client, OPENAI_API_KEY).raised
    /\ ChatFail("embedding", "RuntimeError")
    /\ UNCHANGED <<chat_req, similar, context_chunks, context, messages>>
    /\ UNCHANGED <<chunkVars, pdfVars, clientVars, ingestVars>>

\* generate_embedding: the embeddings request fails.
ChatEmbedFail ==
    /\ chat_pc = "embedding"
    /\ ~GetClient(openai_client, OPENAI_API_KEY).raised
    /\ openai_client' = GetClient(openai_client, OPENAI_API_KEY).client
    /\ constructed' = AfterGet(constructed, "OpenAI", openai_client, OPENAI_API_KEY)
    /\ ChatFail("embedding", "upstream")
    /\ UNCHANGED <<chat_req, similar, context_chunks, context, messages>>
    /\ UNCHANGED <<OPENAI_API_KEY, PINECONE_API_KEY, pinecone_index>>
    /\ UNCHANGED <<chunkVars, pdfVars, ingestVars>>

\* generate_embedding returns the query embedding.
ChatEmbedOk ==
    /\ chat_pc = "embedding"
    /\ ~GetClient(openai_client, OPENAI_API_KEY).raised
    /\ openai_client' = GetClient(openai_client, OPENAI_API_KEY).client
    /\ constructed' = AfterGet(constructed, "OpenAI", openai_client, OPENAI_API_KEY)
    /\ chat_pc' = "querying"
    /\ UNCHANGED <<chat_req, similar, context_chunks, context, messages, chat_resp>>
    /\ UNCHANGED <<OPENAI_API_KEY, PINECONE_API_KEY, pinecone_index>>
    /\ UNCHANGED <<chunkVars, pdfVars, ingestVars>>

\* query_similar: get_pinecone_index() raises without the key.
ChatQueryConfigError ==
    /\ chat_pc = "querying"
    /\ GetClient(pinecone_index, PINECONE_API_KEY).raised
    /\ ChatFail("querying", "RuntimeError")
    /\ UNCHANGED <<chat_req, similar, context_chunks, context, messages>>
    /\ UNCHANGED <<chunkVars, pdfVars, clientVars, ingestVars>>

\* query_similar: index.query fails.
ChatQueryFail ==
    /\ chat_pc = "querying"
    /\ ~GetClient(pinecone_index, PINECONE_API_KEY).raised
    /\ pinecone_index' = GetClient(pinecone_index, PINECONE_API_KEY).client
    /\ constructed' = AfterGet(constructed, "Pinecone", pinecone_index, PINECONE_API_KEY)
    /\ ChatFail("querying", "upstream")
    /\ UNCHANGED <<chat_req, similar, context_chunks, context, messages>>
    /\ UNCHANGED <<OPENAI_API_KEY, PINECONE_API_KEY, openai_client>>
    /\ UNCHANGED <<chunkVars, pdfVars, ingestVars>>

\* query_similar returns the matches of the index, ranked.
ChatQueryOk(scores) ==
    /\ chat_pc = "querying"
    /\ ~GetClient(pinecone_index, PINECONE_API_KEY).raised
    /\ pinecone_index' = GetClient(pinecone_index, PINECONE_API_KEY).client
    /\ constructed' = AfterGet(constructed, "Pinecone", pinecone_index, PINECONE_API_KEY)
    /\ similar' = Matches(scores)
    /\ chat_pc' = "assembling"
    /\ UNCHANGED <<chat_req, context_chunks, context, messages, chat_resp>>
    /\ UNCHANGED <<OPENAI_API_KEY, PINECONE_API_KEY, openai_client>>
    /\ UNCHANGED <<chunkVars, pdfVars, ingestVars>>

\* The filter, the context set, the rendered context, and generate_answer up
\* to its request: the messages are built, or a history dict without "role"
\* raises KeyError.
ChatAssemble ==
    /\ chat_pc = "assembling"
    /\ LET cs == ContextChunks(similar, chat_req.min_score)
           ctx == RenderContext(cs)
       IN  /\ context_chunks' = cs
           /\ context' = ctx
           /\ IF HistoryRaises(chat_req.history)
              THEN /\ messages' = <<Msg("system", "prompt", <<>>), ContextMessage(ctx)>>
                   /\ ChatFail("assembling", "KeyError")
              ELSE /\ messages' = BuildMessages(ctx, chat_req.history)
                   /\ chat_pc' = "generating"
                   /\ UNCHANGED chat_resp
    /\ UNCHANGED <<chat_req, similar>>
    /\ UNCHANGED <<chunkVars, pdfVars, clientVars, ingestVars>>

\* client.chat.completions.create fails.
ChatGenerateFail ==
    /\ chat_pc = "generating"
    /\ ChatFail("generating", "upstream")
    /\ UNCHANGED <<chat_req, similar, context_chunks, context, messages>>
    /\ UNCHANGED <<chunkVars, pdfVars, clientVars, ingestVars>>

\* client.chat.completions.create answers: ChatResponse(answer, sources).
ChatGenerateOk ==
    /\ chat_pc = "generating"
    /\ chat_pc' = "done"
    /\ chat_resp' = [status |-> 200, sources |-> Sources(context_chunks),
                     failed_at |-> "", error |-> ""]
    /\ UNCHANGED <<chat_req, similar, context_chunks, context, messages>>
    /\ UNCHANGED <<chunkVars, pdfVars, clientVars, ingestVars>>

(***************************************************************************)
(* Ingestion: the vector index, embeddings, _process_file                  *)
(***************************************************************************)

\* Bound: the ingestion requests of a run. Any number of them may be in
\* flight at once.
NumRequests == 2

\* top_k=100 of list_documents, batch_size = 100 of store_chunks
ListTopK == 100
BatchSize == 100

\* Request p is the p-th to begin.
Procs == 1..NumRequests

\* An uploaded file: its display filename, whether its extension is one the
\* extractor handles, and the chunk texts extraction and chunking give.
Files ==
    { [filename |-> "a.txt", supported |-> TRUE, chunks |-> <<"t1", "t2">>],
      [filename |-> "a.txt", supported |-> TRUE, chunks |-> <<"t3">>],
      [filename |-> "b.txt", supported |-> TRUE, chunks |-> <<"t1">>],
      [filename |-> "a.txt", supported |-> TRUE, chunks |-> <<>>],
      [filename |-> "a.exe", supported |-> FALSE, chunks |-> <<>>] }

NoFile == [filename |-> "", supported |-> FALSE, chunks |-> <<>>]
NoResp == [status |-> 0, document_id |-> 0, error |-> ""]

\* The vector the embedding service gives for a text.
Vec(t) == <<"vec", t>>
NoVec == <<>>

Range(f) == {f[i] : i \in DOMAIN f}

\* The numbers of other documents in the index at the start, left there by
\* earlier ingestions of other filenames: none, and as many as the listing
\* of list_documents returns.
OtherCounts == {0, ListTopK}

\* ---- extract_structured_chunks
\* [{"text": chunk, "chunk_index": i} for i, chunk in enumerate(text_chunks)],
\* or HTTPException(400) for an extension no handler takes.
ExtractStructuredChunks(f) ==
    IF ~f.supported THEN [raised |-> TRUE, chunks |-> <<>>]
    ELSE [raised |-> FALSE, chunks |-> f.chunks]

\* ---- the index
\* index.delete(filter={"document_id": {"$eq": document_id}})
DeleteDocument(st, d) == {r \in st : r.document_id # d}

DeleteDocuments(st, ds) == {r \in st : r.document_id \notin ds}

\* index.upsert(vectors): a record replaces the record of the same id.
Upsert(st, recs) == {r \in st : \A n \in recs : n.id # r.id} \cup recs

\* The matches of filter={"is_first_chunk": True} among the tracked records.
FirstChunks(st) == {r \in st : r.is_first_chunk}

\* list_documents(): the index returns top_k of the matches. Which ones is
\* the index's choice; the model leaves it open. The result is the set of
\* tracked first chunks among the matches returned.
Listings(st, n_others) ==
    LET first == FirstChunks(st)
        k == Min(ListTopK, Cardinality(first) + n_others)
    IN  {T \in SUBSET first : k - n_others <= Cardinality(T) /\ Cardinality(T) <= k}

\* The documents of a listing that the dedup loop deletes.
SameFilename(T, display_filename) ==
    {r.document_id : r \in {x \in T : x.filename = display_filename}}

\* ---- asyncio.gather over the per-text requests
\* A variant that waits for every request and hands failures on as results.
GatherStateIgnoringErrors(n, comps) ==
    IF Len(comps) = n THEN "returned" ELSE "pending"

\* gather raises as soon as one request has failed, returns once all have
\* answered, and is pending before.
GatherState(n, comps) ==
    IF \E k \in 1..Len(comps) : ~comps[k].ok THEN "raised"
    ELSE IF Len(comps) = n THEN "returned"
    ELSE "pending"

\* A variant that lists the results in arrival order.
GatherResultByArrival(n, comps) == [k \in 1..n |-> comps[k].embedding]

\* The list gather returns: position i holds the result of request i.
GatherResult(n, comps) ==
    [i \in 1..n |-> (CHOOSE c \in Range(comps) : c.index = i).embedding]

\* ---- _process_file, after the embeddings
\* The chunks list: zip(structured_chunks, embeddings, strict=False).
BuildChunks(document_id, uploaded_at, display_filename, structured_chunks, embeddings) ==
    [k \in 1..Min(Len(structured_chunks), Len(embeddings)) |->
        [id |-> <<document_id, k - 1>>,
         values |-> embeddings[k],
         text |-> structured_chunks[k],
         document_id |-> document_id,
         filename |-> display_filename,
         chunk_index |-> k - 1,
         total_chunks |-> Len(structured_chunks),
         uploaded_at |-> uploaded_at,
         is_first_chunk |-> (k - 1 = 0)]]

NumBatches(n) == (n + BatchSize - 1) \div BatchSize

\* A variant that replaces what the index holds of the filename of the chunks.
StoreChunksReplacingFilename(st, chunks, fail_at) ==
    LET kept == {r \in st : \A k \in 1..Len(chunks) : r.filename # chunks[k].filename}
    IN  Upsert(kept, {chunks[k] : k \in 1..Len(chunks)})

\* store_chunks: the batches before batch fail_at are upserted; fail_at = 0
\* means that no upsert fails.
StoreChunks(st, chunks, fail_at) ==
    LET n == Len(chunks)
        last == IF fail_at = 0 THEN n ELSE Min(n, (fail_at - 1) * BatchSize)
    IN  Upsert(st, {chunks[k] : k \in 1..last})

\* ---- events on the index, for stating what happened in which order
Event(kind, p, filename, document_id) ==
    [kind |-> kind, p |-> p, filename |-> filename, document_id |-> document_id]

\* The last two events are kept.
Logged(e) ==
    LET h == Append(hist, e) IN IF Len(h) > 2 THEN Tail(h) ELSE h

\* The document a request begins right after: the id of the document of the
\* same filename whose ingestion was the last event and succeeded, else 0.
RightAfter(filename) ==
    IF hist # <<>> /\ hist[Len(hist)].kind = "ok" /\ hist[Len(hist)].filename = filename
    THEN hist[Len(hist)].document_id
    ELSE 0

IngestIdle ==
    /\ store = {}
    /\ others = 0
    /\ pc = [p \in Procs |-> "idle"]
    /\ req = [p \in Procs |-> NoFile]
    /\ completions = [p \in Procs |-> <<>>]
    /\ resp = [p \in Procs |-> NoResp]
    /\ nextId = 1
    /\ nreq = 0
    /\ hist = <<>>
    /\ upsertedBy = {}

\* A request ends with an error before or at the await.
FailBegin(p, f, status, err) ==
    /\ pc' = [pc EXCEPT ![p] = "failed"]
    /\ resp' = [resp EXCEPT ![p] = [status |-> status, document_id |-> 0, error |-> err]]
    /\ nreq' = nreq + 1
    /\ hist' = Logged(Event("fail", p, f.filename, 0))

\* _process_file: a key is not configured, HTTPException(500).
ProcessFileConfigError(p, f) ==
    /\ pc[p] = "idle"
    /\ p = nreq + 1
    /\ ~OPENAI_API_KEY \/ ~PINECONE_API_KEY
    /\ FailBegin(p, f, 500, "not configured")
    /\ UNCHANGED <<store, others, req, completions, nextId, upsertedBy>>
    /\ UNCHANGED <<chunkVars, pdfVars, chatVars, clientVars>>

\* _process_file: the extension is not supported, or there is no content:
\* HTTPException(400).
ProcessFileClientError(p, f) ==
    /\ pc[p] = "idle"
    /\ p = nreq + 1
    /\ OPENAI_API_KEY /\ PINECONE_API_KEY
    /\ LET x == ExtractStructuredChunks(f)
       IN  /\ x.raised \/ x.chunks = <<>>
           /\ FailBegin(p, f, 400,
                        IF x.raised THEN "unsupported file type" ELSE "no content")
    /\ UNCHANGED <<store, others, req, completions, nextId, upsertedBy>>
    /\ UNCHANGED <<chunkVars, pdfVars, chatVars, clientVars>>

\* A variant that goes to list_documents() before the file is extracted.
CanListBeforeExtract(p, f) ==
    /\ pc[p] = "idle"
    /\ p = nreq + 1
    /\ OPENAI_API_KEY /\ PINECONE_API_KEY

\* The request got as far as list_documents().
CanList(p, f) ==
    /\ pc[p] = "idle"
    /\ p = nreq + 1
    /\ OPENAI_API_KEY /\ PINECONE_API_KEY
    /\ ~ExtractStructuredChunks(f).raised
    /\ ExtractStructuredChunks(f).chunks # <<>>

\* _process_file: the query of list_documents fails.
ProcessFileListFail(p, f) ==
    /\ CanList(p, f)
    /\ pinecone_index' = GetClient(pinecone_index, PINECONE_API_KEY).client
    /\ constructed' = AfterGet(constructed, "Pinecone", pinecone_index, PINECONE_API_KEY)
    /\ FailBegin(p, f, 500, "list_documents")
    /\ UNCHANGED <<store, others, req, completions, nextId, upsertedBy>>
    /\ UNCHANGED <<OPENAI_API_KEY, PINECONE_API_KEY, openai_client>>
    /\ UNCHANGED <<chunkVars, pdfVars, chatVars>>

\* _process_file: a delete_document of the dedup loop fails, after the
\* documents of `deleted` were deleted.
ProcessFileDedupFail(p, f, T, deleted) ==
    /\ CanList(p, f)
    /\ T \in Listings(store, others)
    /\ deleted \subseteq SameFilename(T, f.filename)
    /\ deleted # SameFilename(T, f.filename)
    /\ pinecone_index' = GetClient(pinecone_index, PINECONE_API_KEY).client
    /\ constructed' = AfterGet(constructed, "Pinecone", pinecone_index, PINECONE_API_KEY)
    /\ store' = DeleteDocuments(store, deleted)
    /\ FailBegin(p, f, 500, "delete_document")
    /\ UNCHANGED <<others, req, completions, nextId, upsertedBy>>
    /\ UNCHANGED <<OPENAI_API_KEY, PINECONE_API_KEY, openai_client>>
    /\ UNCHANGED <<chunkVars, pdfVars, chatVars>>

\* _process_file up to its await: extraction, list_documents, the dedup
\* loop, and generate_embeddings_batch starting one request per chunk text.
ProcessFileBegin(p, f, T) ==
    /\ CanList(p, f)
    /\ T \in Listings(store, others)
    /\ pinecone_index' = GetClient(pinecone_index, PINECONE_API_KEY).client
    /\ constructed' = AfterAsyncOpenAI(
          AfterGet(constructed, "Pinecone", pinecone_index, PINECONE_API_KEY))
    /\ store' = DeleteDocuments(store, SameFilename(T, f.filename))
    /\ pc' = [pc EXCEPT ![p] = "embedding"]
    /\ req' = [req EXCEPT ![p] = f]
    /\ completions' = [completions EXCEPT ![p] = <<>>]
    /\ nreq' = nreq + 1
    /\ hist' = Logged(Event("begin", p, f.filename, RightAfter(f.filename)))
    /\ UNCHANGED <<others, resp, nextId, upsertedBy>>
    /\ UNCHANGED <<OPENAI_API_KEY, PINECONE_API_KEY, openai_client>>
    /\ UNCHANGED <<chunkVars, pdfVars, chatVars>>

\* One embedding request of the gather answers, or fails.
EmbeddingResponse(p, i, ok) ==
    /\ pc[p] = "embedding"
    /\ i \in 1..Len(req[p].chunks)
    /\ \A k \in 1..Len(completions[p]) : completions[p][k].index # i
    /\ GatherState(Len(req[p].chunks), completions[p]) = "pending"
    /\ completions' = [completions EXCEPT ![p] =
          Append(@, [index |-> i, ok |-> ok,
                     embedding |-> IF ok THEN Vec(req[p].chunks[i]) ELSE NoVec])]
    /\ UNCHANGED <<store, others, pc, req, resp, nextId, nreq, hist, upsertedBy>>
    /\ UNCHANGED <<chunkVars, pdfVars, chatVars, clientVars>>

\* _process_file resumes with the exception gather raised.
ProcessFileEmbeddingError(p) ==
    /\ pc[p] = "embedding"
    /\ GatherState(Len(req[p].chunks), completions[p]) = "raised"
    /\ pc' = [pc EXCEPT ![p] = "failed"]
    /\ resp' = [resp EXCEPT ![p] = [status |-> 500, document_id |-> 0, error |-> "embedding"]]
    /\ hist' = Logged(Event("fail", p, req[p].filename, 0))
    /\ req' = [req EXCEPT ![p] = NoFile]
    /\ completions' = [completions EXCEPT ![p] = <<>>]
    /\ UNCHANGED <<store, others, nextId, nreq, upsertedBy>>
    /\ UNCHANGED <<chunkVars, pdfVars, chatVars, clientVars>>

\* The chunks _process_file builds once gather has returned.
ChunksOf(p) ==
    BuildChunks(nextId, nextId, req[p].filename, req[p].chunks,
                GatherResult(Len(req[p].chunks), completions[p]))

\* _process_file resumes with the embeddings: document id, chunks,
\* store_chunks, and the response.
ProcessFileStore(p) ==
    /\ pc[p] = "embedding"
    /\ GatherState(Len(req[p].chunks), completions[p]) = "returned"
    /\ store' = StoreChunks(store, ChunksOf(p), 0)
    /\ upsertedBy' = upsertedBy \cup {p}
    /\ nextId' = nextId + 1
    /\ pc' = [pc EXCEPT ![p] = "done"]
    /\ resp' = [resp EXCEPT ![p] = [status |-> 200, document_id |-> nextId, error |-> ""]]
    /\ hist' = Logged(Event("ok", p, req[p].filename, nextId))
    /\ req' = [req EXCEPT ![p] = NoFile]
    /\ completions' = [completions EXCEPT ![p] = <<>>]
    /\ UNCHANGED <<others, nreq>>
    /\ UNCHANGED <<chunkVars, pdfVars, chatVars, clientVars>>

\* The same, with the upsert of batch fail_at failing: the batches before it
\* stay in the index and the request ends with the error.
ProcessFileStoreFail(p, fail_at) ==
    /\ pc[p] = "embedding"
    /\ GatherState(Len(req[p].chunks), completions[p]) = "returned"
    /\ fail_at \in 1..NumBatches(Len(ChunksOf(p)))
    /\ store' = StoreChunks(store, ChunksOf(p), fail_at)
    /\ upsertedBy' = IF fail_at > 1 THEN upsertedBy \cup {p} ELSE upsertedBy
    /\ nextId' = nextId + 1
    /\ pc' = [pc EXCEPT ![p] = "failed"]
    /\ resp' = [resp EXCEPT ![p] = [status |-> 500, document_id |-> 0, error |-> "upsert"]]
    /\ hist' = Logged(Event("fail", p, req[p].filename, 0))
    /\ req' = [req EXCEPT ![p] = NoFile]
    /\ completions' = [completions EXCEPT ![p] = <<>>]
    /\ UNCHANGED <<others, nreq>>
    /\ UNCHANGED <<chunkVars, pdfVars, chatVars, clientVars>>

\* DELETE /documents/{document_id} of a stored document. (A delete that
\* fails, or that names no stored document, changes nothing.)
RemoveDocument(d) ==
    /\ PINECONE_API_KEY
    /\ d \in {r.document_id : r \in store}
    /\ pinecone_index' = GetClient(pinecone_index, PINECONE_API_KEY).client
    /\ constructed' = AfterGet(constructed, "Pinecone", pinecone_index, PINECONE_API_KEY)
    /\ store' = DeleteDocument(store, d)
    /\ hist' = Logged(Event("delete", 0, "", d))
    /\ UNCHANGED <<others, pc, req, completions, resp, nextId, nreq, upsertedBy>>
    /\ UNCHANGED <<OPENAI_API_KEY, PINECONE_API_KEY, openai_client>>
    /\ UNCHANGED <<chunkVars, pdfVars, chatVars>>

(***************************************************************************)
(* The specifications                                                      *)
(***************************************************************************)

InitChunk ==
    /\ text \in Texts
    /\ chunk_tokens \in 1..MaxChunkTokens
    /\ overlap_tokens \in 0..MaxChunkTokens
    /\ chunkResult = NoChunking
    /\ PdfIdle /\ ChatIdle /\ ClientIdle /\ IngestIdle

NextChunk == CallChunkByTokens

SpecChunk == InitChunk /\ [][NextChunk]_vars

InitPdf ==
    /\ blocks \in Pages
    /\ pageResult = NoPage
    /\ ChunkIdle /\ ChatIdle /\ ClientIdle /\ IngestIdle

NextPdf == CallExtractPage

SpecPdf == InitPdf /\ [][NextPdf]_vars

InitChat ==
    /\ OPENAI_API_KEY \in BOOLEAN
    /\ PINECONE_API_KEY \in BOOLEAN
    /\ openai_client = "None"
    /\ pinecone_index = "None"
    /\ constructed = NoneConstructed
    /\ ChunkIdle /\ PdfIdle /\ ChatIdle /\ IngestIdle

NextChat ==
    \/ \E ms \in MinScores, h \in Histories : ChatBegin(ms, h)
    \/ ChatEmbedConfigError
    \/ ChatEmbedFail
    \/ ChatEmbedOk
    \/ ChatQueryConfigError
    \/ ChatQueryFail
    \/ \E scores \in ScoreLists : ChatQueryOk(scores)
    \/ ChatAssemble
    \/ ChatGenerateFail
    \/ ChatGenerateOk

SpecChat == InitChat /\ [][NextChat]_vars

Init ==
    /\ OPENAI_API_KEY \in BOOLEAN
    /\ PINECONE_API_KEY \in BOOLEAN
    /\ openai_client = "None"
    /\ pinecone_index = "None"
    /\ constructed = NoneConstructed
    /\ store = {}
    /\ others \in OtherCounts
    /\ pc = [p \in Procs |-> "idle"]
    /\ req = [p \in Procs |-> NoFile]
    /\ completions = [p \in Procs |-> <<>>]
    /\ resp = [p \in Procs |-> NoResp]
    /\ nextId = 1
    /\ nreq = 0
    /\ hist = <<>>
    /\ upsertedBy = {}
    /\ ChunkIdle /\ PdfIdle /\ ChatIdle

Next ==
    \/ \E p \in Procs, f \in Files : ProcessFileConfigError(p, f)
    \/ \E p \in Procs, f \in Files : ProcessFileClientError(p, f)
    \/ \E p \in Procs, f \in Files : ProcessFileListFail(p, f)
    \/ \E p \in Procs, f \in Files, T \in SUBSET store :
          \E D \in SUBSET SameFilename(T, f.filename) : ProcessFileDedupFail(p, f, T, D)
    \/ \E p \in Procs, f \in Files, T \in SUBSET store : ProcessFileBegin(p, f, T)
    \/ \E p \in Procs, ok \in BOOLEAN :
          \E i \in 1..Len(req[p].chunks) : EmbeddingResponse(p, i, ok)
    \/ \E p \in Procs : ProcessFileEmbeddingError(p)
    \/ \E p \in Procs : ProcessFileStore(p)
    \/ \E p \in Procs :
          \E k \in 1..NumBatches(Len(req[p].chunks)) : ProcessFileStoreFail(p, k)
    \/ \E d \in {r.document_id : r \in store} : RemoveDocument(d)

Spec == Init /\ [][Next]_vars

\* ---- ingestion of files of more than one upsert batch
\* The chunk texts of a file of n chunks.
ChunkTexts(n) == [k \in 1..n |-> <<"t", k>>]

\* Files of one chunk, and of one chunk more than an upsert batch holds.
BatchFiles ==
    { [filename |-> "a.txt", supported |-> TRUE, chunks |-> ChunkTexts(BatchSize + 1)],
      [filename |-> "a.txt", supported |-> TRUE, chunks |-> ChunkTexts(1)],
      [filename |-> "b.txt", supported |-> TRUE, chunks |-> ChunkTexts(1)] }

\* Every embedding request of the gather has answered, in the order of the
\* requests.
EmbeddingsAnswer(p) ==
    /\ pc[p] = "embedding"
    /\ completions[p] = <<>>
    /\ completions' = [completions EXCEPT ![p] =
          [i \in 1..Len(req[p].chunks) |->
              [index |-> i, ok |-> TRUE, embedding |-> Vec(req[p].chunks[i])]]]
    /\ UNCHANGED <<store, others, pc, req, resp, nextId, nreq, hist, upsertedBy>>
    /\ UNCHANGED <<chunkVars, pdfVars, chatVars, clientVars>>

InitBatch ==
    /\ ChunkIdle /\ PdfIdle /\ ChatIdle /\ ClientIdle /\ IngestIdle

NextBatch ==
    \/ \E p \in Procs, f \in BatchFiles :
          \E T \in Listings(store, others) : ProcessFileBegin(p, f, T)
    \/ \E p \in Procs : EmbeddingsAnswer(p)
    \/ \E p \in Procs : EmbeddingResponse(p, 1, FALSE)
    \/ \E p \in Procs : ProcessFileEmbeddingError(p)
    \/ \E p \in Procs : ProcessFileStore(p)
    \/ \E p \in Procs :
          \E k \in 1..NumBatches(Len(req[p].chunks)) : ProcessFileStoreFail(p, k)
    \/ \E d \in {r.document_id : r \in store} : RemoveDocument(d)

SpecBatch == InitBatch /\ [][NextBatch]_vars

(***************************************************************************)
(* Properties of the token chunker (SpecChunk)                             *)
(***************************************************************************)

Called == chunkResult.kind # "none"

\* The token length N of the text the chunker tokenizes.
N == Len(Encode(Normalize(text)))

Windows == chunkResult.windows

\* C6: for chunk_tokens > overlap_tokens >= 0 and N > chunk_tokens, the
\* windows start at 0 and advance by chunk_tokens - overlap_tokens; each has
\* at most chunk_tokens tokens, every window but the last has exactly
\* chunk_tokens, consecutive windows share exactly overlap_tokens tokens, and
\* together the windows cover the tokens 0..N-1.
C6_WindowsSlideAndCover ==
    (Called /\ overlap_tokens < chunk_tokens /\ N > chunk_tokens) =>
        /\ chunkResult.kind = "returned"
        /\ Len(Windows) >= 2
        /\ Windows[1][1] = 0
        /\ \A k \in 1..Len(Windows) :
              /\ Windows[k][1] < Windows[k][2]
              /\ Windows[k][2] - Windows[k][1] <= chunk_tokens
              /\ Windows[k][2] <= N
        /\ \A k \in 1..(Len(Windows) - 1) :
              /\ Windows[k][2] - Windows[k][1] = chunk_tokens
              /\ Windows[k + 1][1] = Windows[k][1] + (chunk_tokens - overlap_tokens)
              /\ Windows[k][2] - Windows[k + 1][1] = overlap_tokens
        /\ UNION {Windows[k][1] .. (Windows[k][2] - 1) : k \in 1..Len(Windows)} = 0..(N - 1)

\* A text of more tokens than a chunk, cut with a positive overlap into
\* windows of which the last is clamped to the end.
C6_Witness ==
    /\ Called /\ overlap_tokens >= 1 /\ overlap_tokens < chunk_tokens /\ N > chunk_tokens
    /\ Len(Windows) >= 2
    /\ Windows[Len(Windows)][2] - Windows[Len(Windows)][1] < chunk_tokens

\* C7: with overlap_tokens >= chunk_tokens the call raises, whatever the
\* text, the empty and the whitespace-only text included.
C7_RaisesForAnyInput ==
    (Called /\ overlap_tokens >= chunk_tokens) => chunkResult.kind = "ValueError"

\* C8, as stated: a text of at most chunk_tokens tokens comes back as the
\* one-element list holding the input text.
C8_ReturnsInputText ==
    (Called /\ overlap_tokens < chunk_tokens /\ Len(Encode(text)) <= chunk_tokens) =>
        /\ chunkResult.kind = "returned"
        /\ chunkResult.chunks = <<text>>

\* C8, amended: when the normalised text (CRLF to LF, then trimmed) has at
\* most chunk_tokens tokens, the result is the one-element list holding the
\* normalised text, or the empty list when the normalised text is empty.
C8_ReturnsNormalizedText ==
    (Called /\ overlap_tokens < chunk_tokens /\ N <= chunk_tokens) =>
        /\ chunkResult.kind = "returned"
        /\ chunkResult.chunks =
              IF Normalize(text) = <<>> THEN <<>> ELSE <<Normalize(text)>>
        /\ (text # <<>> /\ Normalize(text) = text) => chunkResult.chunks = <<text>>

\* A text that fits in one chunk and that normalisation changes.
C8_Witness ==
    /\ Called /\ overlap_tokens < chunk_tokens /\ N <= chunk_tokens
    /\ Normalize(text) # <<>>
    /\ Normalize(text) # text
    /\ chunkResult.chunks = <<Normalize(text)>>

(***************************************************************************)
(* Properties of the PDF block sort (SpecPdf)                              *)
(***************************************************************************)

ExampleBlocks ==
    << [x0 |-> 50, y0 |-> 10, text |-> "B"],
       [x0 |-> 10, y0 |-> 11, text |-> "A"],
       [x0 |-> 10, y0 |-> 50, text |-> "C"] >>

TextsOf(bs) == [i \in 1..Len(bs) |-> bs[i].text]

WithKey(bs, k) == LET Has(b) == SortKey(b) = k IN SelectSeq(bs, Has)

\* C9, as stated: the blocks of the example come out in the order A, B, C.
C9_ExampleOrderABC ==
    (pageResult.done /\ blocks = ExampleBlocks) =>
        TextsOf(pageResult.clean_blocks) = <<"A", "B", "C">>

\* C9, amended: the clean blocks come out ordered by (round(y0 / 3), x0),
\* blocks of equal key in their input order; the blocks of the example come
\* out in the order B, A, C, since round(10 / 3) = 3 and round(11 / 3) = 4.
C9_SortedByRowThenX ==
    pageResult.done =>
        LET out == pageResult.clean_blocks
        IN  /\ \A i \in 1..(Len(out) - 1) : ~KeyLess(SortKey(out[i + 1]), SortKey(out[i]))
            /\ \A b \in BlockPool :
                  WithKey(out, SortKey(b)) = WithKey(CleanBlocks(blocks), SortKey(b))
            /\ Len(out) = Len(CleanBlocks(blocks))
            /\ blocks = ExampleBlocks => TextsOf(out) = <<"B", "A", "C">>

\* The page of the example, sorted.
C9_Witness ==
    /\ pageResult.done
    /\ blocks = ExampleBlocks
    /\ TextsOf(pageResult.clean_blocks) = <<"B", "A", "C">>

(***************************************************************************)
(* Properties of retrieval (SpecChat)                                      *)
(***************************************************************************)

\* The handler has run the filter and built the context.
Assembled ==
    \/ chat_pc \in {"generating", "done"}
    \/ chat_pc = "failed" /\ chat_resp.failed_at \in {"assembling", "generating"}

\* The candidates that clear min_score, in rank order.
Clearing ==
    LET Ok(c) == c.score >= chat_req.min_score IN SelectSeq(similar, Ok)

ScoresOf(cs) == [i \in 1..Len(cs) |-> cs[i].score]

\* C2: when some candidate has score >= min_score, the context set is the
\* first CONTEXT_MAX_CHUNKS candidates of the score-filtered list, in rank
\* order, and holds no candidate below min_score.
C2_ScoreFilterTier ==
    (Assembled /\ Clearing # <<>>) =>
        /\ context_chunks = SubSeq(Clearing, 1, Min(CONTEXT_MAX_CHUNKS, Len(Clearing)))
        /\ \A i \in 1..Len(context_chunks) : context_chunks[i].score >= chat_req.min_score
        /\ \A i \in 1..(Len(context_chunks) - 1) : context_chunks[i].id < context_chunks[i + 1].id
        /\ (ScoresOf(similar) = <<90, 60, 20>> /\ chat_req.min_score = 30)
              => ScoresOf(context_chunks) = <<90, 60>>

\* More candidates clear min_score than the context takes, and one does not.
C2_Witness ==
    /\ Assembled
    /\ Len(Clearing) > CONTEXT_MAX_CHUNKS
    /\ Len(similar) > Len(Clearing)
    /\ Len(context_chunks) = CONTEXT_MAX_CHUNKS

\* C3: when there are candidates and none has score >= min_score, the
\* context set is the first max(3, CONTEXT_MAX_CHUNKS / 2) candidates in rank
\* order, or all of them when there are fewer.
C3_FallbackTier ==
    (Assembled /\ similar # <<>> /\ Clearing = <<>>) =>
        /\ context_chunks = SubSeq(similar, 1, Min(Max(3, CONTEXT_MAX_CHUNKS \div 2), Len(similar)))
        /\ (ScoresOf(similar) = <<20, 10>> /\ chat_req.min_score = 30)
              => ScoresOf(context_chunks) = <<20, 10>>

\* More candidates than the fallback takes, none clearing min_score.
C3_Witness ==
    /\ Assembled
    /\ Clearing = <<>>
    /\ Len(similar) > Max(3, CONTEXT_MAX_CHUNKS \div 2)
    /\ Len(context_chunks) = Max(3, CONTEXT_MAX_CHUNKS \div 2)

\* C4: when the query returns no candidate, the context set and the rendered
\* context are empty; the handler goes on to generate_answer, whose second
\* system message is the no-relevant-documents message and never a context
\* message; the request fails only where a request with candidates fails
\* too (a history dict without "role", the completion request); and the
\* response carries no source.
C4_ZeroCandidates ==
    (similar = <<>> /\ chat_pc \in {"generating", "done", "failed"}
        /\ chat_resp.failed_at \notin {"embedding", "querying"}) =>
        /\ context_chunks = <<>>
        /\ context = <<>>
        /\ Len(messages) >= 2
        /\ messages[2] = Msg("system", "no_relevant_documents", <<>>)
        /\ \A i \in 1..Len(messages) : messages[i].kind # "context"
        /\ chat_pc = "generating" => messages[Len(messages)].kind = "question"
        /\ chat_pc = "failed" =>
              \/ chat_resp.failed_at = "generating"
              \/ chat_resp.failed_at = "assembling" /\ HistoryRaises(chat_req.history)
        /\ chat_pc = "done" => chat_resp.status = 200 /\ chat_resp.sources = <<>>

\* A chat request answered although the query returned nothing.
C4_Witness ==
    /\ chat_pc = "done"
    /\ similar = <<>>
    /\ chat_resp.status = 200
    /\ chat_resp.sources = <<>>
    /\ messages[2].kind = "no_relevant_documents"

(***************************************************************************)
(* Properties of ingestion (Spec)                                          *)
(***************************************************************************)

\* The last two events are the begin and the success of one request that
\* began right after an ingestion of the same filename had succeeded.
SecondOfTwo ==
    /\ Len(hist) = 2
    /\ hist[1].kind = "begin" /\ hist[1].document_id # 0
    /\ hist[2].kind = "ok" /\ hist[2].p = hist[1].p

\* C1: after two ingestions of one filename, run one after the other and
\* both successful, the index holds exactly one document of that filename,
\* the second one's, and no chunk of the first document.
C1_SecondIngestionReplaces ==
    SecondOfTwo =>
        /\ {r.document_id : r \in {x \in store : x.filename = hist[2].filename}}
              = {hist[2].document_id}
        /\ \A r \in store : r.document_id # hist[1].document_id

\* C5: the list gather returns has the length of the texts and holds at
\* position i the vector of texts[i], whatever the order of arrival; every
\* stored record of chunk_index i carries the text of chunk i of its file
\* and the vector of that text.
C5_EmbeddingsByIndex ==
    /\ \A p \in Procs :
          (pc[p] = "embedding"
              /\ GatherState(Len(req[p].chunks), completions[p]) = "returned") =>
             LET e == GatherResult(Len(req[p].chunks), completions[p])
             IN  /\ Len(e) = Len(req[p].chunks)
                 /\ \A i \in 1..Len(e) : e[i] = Vec(req[p].chunks[i])
    /\ \A r \in store :
          /\ r.values = Vec(r.text)
          /\ \E f \in Files :
                /\ f.filename = r.filename
                /\ Len(f.chunks) = r.total_chunks
                /\ r.chunk_index + 1 \in 1..Len(f.chunks)
                /\ f.chunks[r.chunk_index + 1] = r.text

\* gather has returned the list of an ingestion whose second embedding
\* arrived before its first.
C5_Witness ==
    \E p \in Procs :
        /\ pc[p] = "embedding"
        /\ Len(req[p].chunks) = 2
        /\ GatherState(2, completions[p]) = "returned"
        /\ completions[p][1].index = 2
        /\ GatherResult(2, completions[p]) = <<Vec("t1"), Vec("t2")>>

\* C10: once one embedding request of an ingestion has failed, gather has
\* raised and returns no list: the ingestion calls no upsert and ends with
\* the error; and every record in the index carries the vector of its text.
C10_EmbeddingFailureStoresNothing ==
    /\ \A p \in Procs :
          /\ (\E k \in 1..Len(completions[p]) : ~completions[p][k].ok) =>
                /\ pc[p] = "embedding"
                /\ GatherState(Len(req[p].chunks), completions[p]) = "raised"
                /\ p \notin upsertedBy
          /\ resp[p].error = "embedding" =>
                /\ pc[p] = "failed"
                /\ resp[p].status = 500
                /\ p \notin upsertedBy
    /\ \A r \in store : r.values # NoVec /\ r.values = Vec(r.text)

\* An ingestion that ended with the error of a failed embedding request,
\* while the index holds the document of another ingestion.
C10_Witness ==
    \E p \in Procs :
        /\ pc[p] = "failed"
        /\ resp[p].error = "embedding"
        /\ p \notin upsertedBy
        /\ store # {}

\* The step is request p calling _process_file on file f, up to its await
\* or to the error it ends with before.
Ingests(p, f) ==
    \/ ProcessFileConfigError(p, f)
    \/ ProcessFileClientError(p, f)
    \/ ProcessFileListFail(p, f)
    \/ \E T \in SUBSET store :
          \E D \in SUBSET SameFilename(T, f.filename) : ProcessFileDedupFail(p, f, T, D)
    \/ \E T \in SUBSET store : ProcessFileBegin(p, f, T)

\* The file has an extension no handler takes, or no text.
Rejected(f) == ~f.supported \/ f.chunks = <<>>

\* The step touches neither the index nor a client, and starts no embedding
\* request.
NoStoreOperation(p) ==
    /\ store' = store
    /\ pinecone_index' = pinecone_index
    /\ openai_client' = openai_client
    /\ constructed' = constructed
    /\ pc'[p] # "embedding"
    /\ completions' = completions
    /\ upsertedBy' = upsertedBy

\* C11 as stated: an ingestion of a file of an unsupported extension, or of
\* a file without text, ends with a 4xx error and performs no operation on
\* the index and no embedding request.
C11_RejectedFileIs4xx ==
    [][\A p \in Procs, f \in Files :
          (Rejected(f) /\ Ingests(p, f)) =>
              /\ pc'[p] = "failed"
              /\ resp'[p].status \in 400..499
              /\ NoStoreOperation(p)]_vars

\* C11: with both keys configured, an ingestion of a file of an unsupported
\* extension, or of a file without text, ends with status 400 and the reason
\* (unsupported file type, or no content); with a key missing it ends with
\* the configuration error, status 500. Either way it performs no operation
\* on the index and no embedding request.
C11_RejectedFileIs4xxWhenConfigured ==
    [][\A p \in Procs, f \in Files :
          (Rejected(f) /\ Ingests(p, f)) =>
              /\ pc'[p] = "failed"
              /\ IF OPENAI_API_KEY /\ PINECONE_API_KEY
                 THEN /\ resp'[p].status = 400
                      /\ resp'[p].error =
                            IF ~f.supported THEN "unsupported file type" ELSE "no content"
                 ELSE /\ resp'[p].status = 500
                      /\ resp'[p].error = "not configured"
              /\ NoStoreOperation(p)]_vars

\* The last two events: an ingestion of a.txt succeeded, then an ingestion
\* of an a.txt without text ended with status 400, and the document of the
\* first is still in the index.
C11_Witness ==
    /\ Len(hist) = 2
    /\ hist[1].kind = "ok" /\ hist[1].filename = "a.txt"
    /\ hist[2].kind = "fail" /\ hist[2].filename = "a.txt"
    /\ hist[2].p \in Procs
    /\ resp[hist[2].p].status = 400
    /\ resp[hist[2].p].error = "no content"
    /\ \E r \in store : r.document_id = hist[1].document_id

\* The documents of the ingestions that have answered with success.
Ingested == {resp[p].document_id : p \in {q \in Procs : resp[q].status = 200}}

\* C12: after an ingestion has ended with an error, the index holds no chunk
\* of the document it was ingesting: every record in the index is of a
\* document whose ingestion has succeeded, also when a later upsert batch
\* failed after earlier ones were stored.
C12_FailedIngestionLeavesNoChunk ==
    \A r \in store : r.document_id \in Ingested

\* The records of document d in the index.
ChunksOfDocument(d) == {r \in store : r.document_id = d}

\* C13: in every reachable state of the index, each document in it has
\* exactly one record with is_first_chunk, the one of chunk_index 0; its
\* chunk_index values are exactly 0..total_chunks-1, each once; and all its
\* records carry the same total_chunks, filename and uploaded_at.
C13_StoredDocumentsAreWhole ==
    \A d \in {r.document_id : r \in store} :
        LET cs == ChunksOfDocument(d)
        IN  /\ Cardinality({r \in cs : r.is_first_chunk}) = 1
            /\ \A r \in cs : r.is_first_chunk <=> r.chunk_index = 0
            /\ \A r, q \in cs :
                  /\ r.total_chunks = q.total_chunks
                  /\ r.filename = q.filename
                  /\ r.uploaded_at = q.uploaded_at
                  /\ r.chunk_index = q.chunk_index => r = q
            /\ \A r \in cs :
                  {q.chunk_index : q \in cs} = 0..(r.total_chunks - 1)

\* The last two events are the successes of two ingestions of one filename:
\* the second had begun, and run its dedup, before the first upserted.
BothSucceededInterleaved ==
    /\ Len(hist) = 2
    /\ hist[1].kind = "ok" /\ hist[2].kind = "ok"
    /\ hist[1].p # hist[2].p
    /\ hist[1].filename = hist[2].filename

\* The documents of a filename in the index.
DocumentsNamed(filename) ==
    {r.document_id : r \in {x \in store : x.filename = filename}}

\* C14: two ingestions of one filename interleave at the embedding await,
\* between the dedup and the upsert: when both were suspended there and both
\* have then succeeded, the index holds the two distinct documents they
\* answered with, both of that filename. (That such a state is reached is
\* C14_Witness.)
C14_InterleavedIngestionsLeaveTwo ==
    BothSucceededInterleaved =>
        /\ hist[1].document_id # hist[2].document_id
        /\ {hist[1].document_id, hist[2].document_id}
              \subseteq DocumentsNamed(hist[1].filename)
        /\ \A k \in 1..2 :
              /\ pc[hist[k].p] = "done"
              /\ resp[hist[k].p].status = 200
              /\ resp[hist[k].p].document_id = hist[k].document_id

\* Both ingestions of a.txt have succeeded after interleaving, in an index
\* that held no other document, and the index holds two documents a.txt.
C14_Witness ==
    /\ BothSucceededInterleaved
    /\ others = 0
    /\ hist[1].filename = "a.txt"
    /\ \A p \in Procs : pc[p] = "done" /\ resp[p].status = 200
    /\ Cardinality(DocumentsNamed("a.txt")) = 2

\* C15: across the requests of one process each client of an external
\* service is built at most once and, once set, is never replaced: no class
\* has been constructed twice, each global holds a client exactly when its
\* class was constructed once, and without its key a global is never set.
C15_ClientsBuiltAtMostOnce ==
    /\ \A class \in DOMAIN constructed : constructed[class] <= 1
    /\ openai_client # "None" <=> constructed.OpenAI = 1
    /\ pinecone_index # "None" <=> constructed.Pinecone = 1
    /\ ~OPENAI_API_KEY => openai_client = "None"
    /\ ~PINECONE_API_KEY => pinecone_index = "None"

\* Document d is in the index with all its chunks.
FullyPresent(d) ==
    /\ ChunksOfDocument(d) # {}
    /\ \A r \in ChunksOfDocument(d) :
          {q.chunk_index : q \in ChunksOfDocument(d)} = 0..(r.total_chunks - 1)

\* The last two events are the begin and the failure of one request that
\* began right after an ingestion of the same filename had succeeded: it
\* failed at or after its await.
FailedAfterBegin ==
    /\ Len(hist) = 2
    /\ hist[1].kind = "begin" /\ hist[1].document_id # 0
    /\ hist[2].kind = "fail" /\ hist[2].p = hist[1].p

\* The last two events are the success of an ingestion and the failure,
\* before its await, of a request for the same filename.
FailedBeforeBegin ==
    /\ Len(hist) = 2
    /\ hist[1].kind = "ok"
    /\ hist[2].kind = "fail" /\ hist[2].filename = hist[1].filename

\* C16: a failed ingestion leaves the stored documents as they were: when a
\* filename that is in the index is ingested again and the request fails at
\* the embedding, or at any step before its first upsert, the document that
\* was stored under that filename is still in the index with all its chunks.
C16_FailedIngestionKeepsPrevious ==
    (FailedAfterBegin \/ FailedBeforeBegin) => FullyPresent(hist[1].document_id)

====
